---- MODULE Spec2Model ----
(***************************************************************************)
(* Invoice lifecycle and stock reservation of the medshop back end:        *)
(* InvoiceService (create / update / cancel / status), the invoice routes  *)
(* that touch stock themselves (PATCH cancel, DELETE), the product         *)
(* quantity route and Product.updateQuantity.                              *)
(*                                                                         *)
(* Money is counted in whole units.  Product and invoice primary keys are  *)
(* UUIDs in the program; here products are named and invoices are numbered *)
(* in creation order, which is also their createdAt order.                 *)
(***************************************************************************)
EXTENDS Integers, Sequences, FiniteSets, TLC

\* ------------------------------------------------------------- bounds
MaxInvoices == 1
MaxItems == 2
MaxItemQty == 2
InitQty == 2
MaxAvail == 3
MaxAdjust == 1
MaxRequests == 3
MaxFields == 2

Products == {"p1", "p2"}
UnknownProduct == "p0"
ProductIds == Products \cup {UnknownProduct}
InvoiceIds == 1..MaxInvoices
Procs == {1, 2}
ConcInvoiceIds == {1, 2}
AllInvoiceIds == InvoiceIds \cup ConcInvoiceIds

UnitPrices == {2}
ItemDiscounts == {0}
InvoiceDiscounts == {0}
Taxes == {0}
PaidAmounts == {0}
PaymentMethods == {"cash", "credit"}
StatusPaidAmounts == {<<>>, <<0>>}
AdjustQuantities == (-1)..MaxAdjust

ItemInputs ==
  [productId : ProductIds, quantity : 1..MaxItemQty,
   unitPrice : UnitPrices, discountAmount : ItemDiscounts]

ItemLists == UNION {[1..n -> ItemInputs] : n \in 1..MaxItems}

InvoiceInputs ==
  {d \in [items : ItemLists, discountAmount : InvoiceDiscounts, taxAmount : Taxes,
          paymentMethod : PaymentMethods, paidAmount : PaidAmounts] :
     Len(d.items) <= MaxItems}

\* Requests with a single item.
SingleItemInputs == {d \in InvoiceInputs : Len(d.items) = 1}

Statuses == {"pending", "partial", "paid", "cancelled"}

\* The columns of a products row that an invoice item copies, and isActive.
\* availableQuantity is kept apart, in avail.  "null" is the SQL NULL of the
\* two nullable columns.
Names == {"n1", "n2"}
Barcodes == {"b1", "b2", "b3"}
BatchNumbers == {"null", "L1"}
ExpiryDates == {"null", "e1"}

ProductRows ==
  [name : Names, barcode : Barcodes, batchNumber : BatchNumbers,
   expiryDate : ExpiryDates, isActive : BOOLEAN]

VARIABLES avail, invoices, items, created, issued, ret, procs, started, catalog

vars == <<avail, invoices, items, created, issued, ret, procs, started, catalog>>

\* ------------------------------------------------------------- helpers
\* What the caller of an entry point gets back, kept in ret: the entry point
\* (op), the invoice it was called for (id), the error thrown or the 4xx
\* answer ("none" for success), the paymentStatus the invoice had when the
\* call loaded it (was; "none" when there was no such invoice), for an
\* error thrown inside the item loop, the item it names (item, else <<>>), and
\* the products whose lastRestocked the call set to the current time (stamped).
Response(op, id, error) ==
  [op |-> op, id |-> id, error |-> error,
   was |-> IF id \in DOMAIN invoices THEN invoices[id].paymentStatus ELSE "none",
   item |-> <<>>, stamped |-> {}]

Max(a, b) == IF a >= b THEN a ELSE b

RECURSIVE SumQty(_, _)
SumQty(rows, p) ==
  IF rows = <<>> THEN 0
  ELSE (IF Head(rows).productId = p THEN Head(rows).quantity ELSE 0)
       + SumQty(Tail(rows), p)

RECURSIVE SumTotals(_)
SumTotals(rows) ==
  IF rows = <<>> THEN 0 ELSE Head(rows).totalAmount + SumTotals(Tail(rows))

\* A request in flight (the interleaved specification): where it stands (pc),
\* its entry point and arguments (op, id, data), and the locals of the
\* handler: the invoice number read, the invoice row and the items loaded
\* (status, rows, each item with the availableQuantity of its own Product
\* instance in loaded), the loop index k, the Product instance of the current
\* item (product), the subtotal so far, and the error it ended with.
Idle ==
  [pc |-> "idle", op |-> "none", id |-> 0, data |-> <<>>, number |-> <<>>,
   status |-> "none", rows |-> <<>>, loaded |-> <<>>, k |-> 0, product |-> 0,
   subtotal |-> 0, error |-> "none"]

\* ------------------------------------------------------------- Product
\* Variants of updateQuantity that the claims must tell from it: 'subtract'
\* without the floor at 0, and 'subtract' that writes the quantity back as it was.
updateQuantityNoFloor(availableQuantity, newQuantity, operation) ==
  IF operation = "add" THEN availableQuantity + newQuantity
  ELSE IF operation = "subtract" THEN availableQuantity - newQuantity
  ELSE newQuantity

updateQuantityNoSubtract(availableQuantity, newQuantity, operation) ==
  IF operation = "add" THEN availableQuantity + newQuantity
  ELSE IF operation = "subtract" THEN availableQuantity
  ELSE newQuantity

\* Product.prototype.updateQuantity: the new availableQuantity of the instance
\* it is called on (the instance is then saved).
updateQuantity(availableQuantity, newQuantity, operation) ==
  IF operation = "add" THEN availableQuantity + newQuantity
  ELSE IF operation = "subtract" THEN Max(0, availableQuantity - newQuantity)
  ELSE newQuantity

\* Product.prototype.updateQuantity sets lastRestocked to new Date() for 'add'
\* and for no other operation.  stampedBy is the products whose lastRestocked
\* a loop of updateQuantity(quantity, operation) over the items rows sets.
stampsLastRestocked(operation) == operation = "add"

stampedBy(rows, operation) ==
  IF stampsLastRestocked(operation)
    THEN {rows[i].productId : i \in DOMAIN rows} \cap Products
    ELSE {}

\* ------------------------------------------------------------- numbering
DigitChars == <<"0", "1", "2", "3", "4", "5", "6", "7", "8", "9">>

invoiceNumberPrefix == <<"I", "N", "V">>
invoiceNumberLength == 6

RECURSIVE toString(_)
toString(n) ==
  IF n < 10 THEN <<DigitChars[n + 1]>>
  ELSE Append(toString(n \div 10), DigitChars[(n % 10) + 1])

RECURSIVE padStart(_, _, _)
padStart(s, targetLength, ch) ==
  IF Len(s) >= targetLength THEN s ELSE padStart(<<ch>> \o s, targetLength, ch)

IsDigit(c) == \E d \in 1..10 : DigitChars[d] = c

DigitValue(c) == (CHOOSE d \in 1..10 : DigitChars[d] = c) - 1

\* The match of /\d+/g joined: every digit of the string, wherever it stands.
RECURSIVE everyDigit(_)
everyDigit(s) ==
  IF s = <<>> THEN <<>>
  ELSE IF IsDigit(s[Len(s)])
    THEN Append(everyDigit(SubSeq(s, 1, Len(s) - 1)), s[Len(s)])
  ELSE everyDigit(SubSeq(s, 1, Len(s) - 1))

\* The match of /\d+$/: the longest run of digits that ends the string.
RECURSIVE trailingDigits(_)
trailingDigits(s) ==
  IF s = <<>> \/ ~IsDigit(s[Len(s)]) THEN <<>>
  ELSE Append(trailingDigits(SubSeq(s, 1, Len(s) - 1)), s[Len(s)])

RECURSIVE parseInt(_)
parseInt(s) ==
  IF s = <<>> THEN 0
  ELSE 10 * parseInt(SubSeq(s, 1, Len(s) - 1)) + DigitValue(s[Len(s)])

formatInvoiceNumber(nextNumber) ==
  invoiceNumberPrefix \o padStart(toString(nextNumber), invoiceNumberLength, "0")

\* Invoice.findOne({order: [['createdAt', 'DESC']]}): order lists the ids of
\* the rows of invs by createdAt.  <<>> stands for null.
lastInvoice(invs, order) ==
  IF order = <<>> THEN <<>> ELSE <<invs[order[Len(order)]]>>

generateInvoiceNumber(invs, order) ==
  LET last == lastInvoice(invs, order)
      match == IF last = <<>> THEN <<>> ELSE trailingDigits(last[1].invoiceNumber)
      nextNumber == IF match = <<>> THEN 1 ELSE parseInt(match) + 1
  IN formatInvoiceNumber(nextNumber)

\* ------------------------------------------------------------- InvoiceService
immediateMethods == {"cash", "card", "upi", "netbanking"}

\* The row Invoice.create inserts: the fields the call passes and the model's
\* defaults for the others.
newInvoice(invoiceNumber, invoiceData) ==
  [invoiceNumber |-> invoiceNumber,
   discountAmount |-> invoiceData.discountAmount,
   taxAmount |-> invoiceData.taxAmount,
   paymentMethod |-> invoiceData.paymentMethod,
   subtotal |-> 0, totalAmount |-> 0, paidAmount |-> 0,
   paymentStatus |-> "pending", isActive |-> TRUE]

\* The row InvoiceItem.create inserts: the request's figures and the copy of
\* the product's name, barcode, batch number and expiry date as the products
\* table (catalog) has them when the item is created.
newItem(itemData, itemTotalAfterDiscount) ==
  [productId |-> itemData.productId,
   productName |-> catalog[itemData.productId].name,
   productBarcode |-> catalog[itemData.productId].barcode,
   quantity |-> itemData.quantity,
   unitPrice |-> itemData.unitPrice, discountAmount |-> itemData.discountAmount,
   totalAmount |-> itemTotalAfterDiscount,
   batchNumber |-> catalog[itemData.productId].batchNumber,
   expiryDate |-> catalog[itemData.productId].expiryDate]

\* The validators of InvoiceItem (quantity min 1, totalAmount min 0), run by
\* InvoiceItem.create before the INSERT.  validItemAlways is the model without
\* validators.
validItemAlways(quantity, totalAmount) == TRUE

validItem(quantity, totalAmount) == quantity >= 1 /\ totalAmount >= 0

\* The validators of Invoice on the fields the totals update writes (subtotal,
\* totalAmount, paidAmount: min 0).  validTotalsAlways is the model without.
validTotalsAlways(subtotal, totalAmount, paidAmount) == TRUE

validTotals(subtotal, totalAmount, paidAmount) ==
  subtotal >= 0 /\ totalAmount >= 0 /\ paidAmount >= 0

\* The item loop of createInvoice and of updateInvoice (the same text in both),
\* from item i on.  st.stock is the products table, st.rows the items inserted
\* so far, st.error the error thrown ("none" while the loop runs) and st.failed
\* the item it was thrown for.  A throw leaves what the earlier iterations
\* wrote.  InvoiceItem.create validates the row before inserting (validItem).
RECURSIVE itemLoop(_, _, _)
itemLoop(itemsData, i, st) ==
  IF i > Len(itemsData) THEN st
  ELSE
    LET itemData == itemsData[i]
        itemTotal == itemData.quantity * itemData.unitPrice
        itemDiscount == itemData.discountAmount
        itemTotalAfterDiscount == itemTotal - itemDiscount
    IN IF itemData.productId \notin Products
         THEN [st EXCEPT !.error = "ProductNotFound", !.failed = <<itemData>>]
       ELSE IF st.stock[itemData.productId] < itemData.quantity
         THEN [st EXCEPT !.error = "InsufficientStock", !.failed = <<itemData>>]
       ELSE IF ~validItem(itemData.quantity, itemTotalAfterDiscount)
         THEN [st EXCEPT !.error = "ValidationError", !.failed = <<itemData>>]
       ELSE itemLoop(itemsData, i + 1,
              [stock |-> [st.stock EXCEPT ![itemData.productId] =
                            updateQuantity(@, itemData.quantity, "subtract")],
               rows |-> Append(st.rows, newItem(itemData, itemTotalAfterDiscount)),
               subtotal |-> st.subtotal + itemTotalAfterDiscount,
               error |-> "none", failed |-> <<>>])

\* finalPaidAmount that takes no account of the amount the caller supplies.
finalPaidAmountComputed(invoiceData, totalAmount) ==
  IF invoiceData.paymentMethod \in immediateMethods THEN totalAmount ELSE 0

finalPaidAmount(invoiceData, totalAmount) ==
  LET providedPaidAmount == invoiceData.paidAmount
      computedPaidAmount ==
        IF invoiceData.paymentMethod \in immediateMethods THEN totalAmount ELSE 0
  IN IF providedPaidAmount > 0 THEN providedPaidAmount ELSE computedPaidAmount

\* paymentStatus that needs more than the total to be paid.
paymentStatusStrict(paidAmount, totalAmount) ==
  IF paidAmount > totalAmount THEN "paid" ELSE "pending"

\* paymentStatus that tells a part payment from none.
paymentStatusWithPartial(paidAmount, totalAmount) ==
  IF paidAmount >= totalAmount THEN "paid"
  ELSE IF paidAmount > 0 THEN "partial" ELSE "pending"

paymentStatusOf(paidAmount, totalAmount) ==
  IF paidAmount >= totalAmount THEN "paid" ELSE "pending"

\* The last invoice.update of createInvoice and updateInvoice; the model
\* validation (subtotal, totalAmount, paidAmount: min 0) rejects it as a whole.
withTotals(inv, invoiceData, subtotal) ==
  LET totalAmount == subtotal - invoiceData.discountAmount + invoiceData.taxAmount
      paidAmount == finalPaidAmount(invoiceData, totalAmount)
  IN [row |-> [inv EXCEPT !.subtotal = subtotal,
                          !.totalAmount = totalAmount,
                          !.paidAmount = paidAmount,
                          !.paymentStatus = paymentStatusOf(paidAmount, totalAmount)],
      valid |-> validTotals(subtotal, totalAmount, paidAmount)]

\* The restore loop of updateInvoice and cancelInvoice: every item carries its
\* own Product instance, loaded with the invoice, so each save writes
\* (quantity at load time) + (that item's quantity).
RECURSIVE restoreLoaded(_, _, _, _)
restoreLoaded(rows, i, loaded, stock) ==
  IF i > Len(rows) THEN stock
  ELSE restoreLoaded(rows, i + 1, loaded,
         [stock EXCEPT ![rows[i].productId] =
            updateQuantity(loaded[rows[i].productId], rows[i].quantity, "add")])

\* updateInvoice reactivates a cancelled invoice before it releases its items.
\* reactivateNever is the variant without that update.
reactivateNever(invoice) == invoice

reactivate(invoice) ==
  IF invoice.paymentStatus = "cancelled" THEN [invoice EXCEPT !.isActive = TRUE] ELSE invoice

createInvoice(invoiceData) ==
  /\ Cardinality(DOMAIN invoices) < MaxInvoices
  /\ LET id == CHOOSE i \in InvoiceIds \ DOMAIN invoices :
                 \A j \in InvoiceIds \ DOMAIN invoices : i <= j
         invoiceNumber == generateInvoiceNumber(invoices, created)
         taken == \E j \in DOMAIN invoices : invoices[j].invoiceNumber = invoiceNumber
         invoice == newInvoice(invoiceNumber, invoiceData)
         st == itemLoop(invoiceData.items, 1,
                 [stock |-> avail, rows |-> <<>>, subtotal |-> 0, error |-> "none",
                  failed |-> <<>>])
         final == withTotals(invoice, invoiceData, st.subtotal)
     IN IF taken
          THEN /\ ret' = Response("createInvoice", id, "UniqueConstraint")
               /\ UNCHANGED <<avail, invoices, items, created>>
        ELSE /\ created' = Append(created, id)
             /\ avail' = st.stock
             /\ items' = [items EXCEPT ![id] = st.rows]
             /\ invoices' = (id :> (IF st.error = "none" /\ final.valid
                                      THEN final.row ELSE invoice)) @@ invoices
             /\ ret' = [Response("createInvoice", id,
                                 IF st.error # "none" THEN st.error
                                 ELSE IF final.valid THEN "none"
                                 ELSE "ValidationError")
                        EXCEPT !.item = st.failed]

\* updateInvoice without the check of lines 588-590 (paid invoices).
updateInvoiceNoPaidGuard(invoiceId, invoiceData) ==
  IF invoiceId \notin DOMAIN invoices
    THEN /\ ret' = Response("updateInvoice", invoiceId, "InvoiceNotFound")
         /\ UNCHANGED <<avail, invoices, items, created>>
  ELSE
    LET invoice == invoices[invoiceId]
        reactivated == reactivate(invoice)
        restored == restoreLoaded(items[invoiceId], 1, avail, avail)
        basic == [reactivated EXCEPT !.paymentMethod = invoiceData.paymentMethod,
                                     !.discountAmount = invoiceData.discountAmount,
                                     !.taxAmount = invoiceData.taxAmount]
        st == itemLoop(invoiceData.items, 1,
                [stock |-> restored, rows |-> <<>>, subtotal |-> 0, error |-> "none",
                 failed |-> <<>>])
        final == withTotals(basic, invoiceData, st.subtotal)
    IN /\ avail' = st.stock
       /\ items' = [items EXCEPT ![invoiceId] = st.rows]
       /\ invoices' = [invoices EXCEPT ![invoiceId] =
                         IF st.error = "none" /\ final.valid THEN final.row ELSE basic]
       /\ ret' = [Response("updateInvoice", invoiceId,
                           IF st.error # "none" THEN st.error
                           ELSE IF final.valid THEN "none"
                           ELSE "ValidationError")
                  EXCEPT !.item = st.failed,
                         !.stamped = stampedBy(items[invoiceId], "add")]
       /\ UNCHANGED created

updateInvoice(invoiceId, invoiceData) ==
  IF invoiceId \notin DOMAIN invoices
    THEN /\ ret' = Response("updateInvoice", invoiceId, "InvoiceNotFound")
         /\ UNCHANGED <<avail, invoices, items, created>>
  ELSE IF invoices[invoiceId].paymentStatus = "paid"
    THEN /\ ret' = Response("updateInvoice", invoiceId, "InvoiceImmutable")
         /\ UNCHANGED <<avail, invoices, items, created>>
  ELSE
    LET invoice == invoices[invoiceId]
        reactivated == reactivate(invoice)
        restored == restoreLoaded(items[invoiceId], 1, avail, avail)
        basic == [reactivated EXCEPT !.paymentMethod = invoiceData.paymentMethod,
                                     !.discountAmount = invoiceData.discountAmount,
                                     !.taxAmount = invoiceData.taxAmount]
        st == itemLoop(invoiceData.items, 1,
                [stock |-> restored, rows |-> <<>>, subtotal |-> 0, error |-> "none",
                 failed |-> <<>>])
        final == withTotals(basic, invoiceData, st.subtotal)
    IN /\ avail' = st.stock
       /\ items' = [items EXCEPT ![invoiceId] = st.rows]
       /\ invoices' = [invoices EXCEPT ![invoiceId] =
                         IF st.error = "none" /\ final.valid THEN final.row ELSE basic]
       /\ ret' = [Response("updateInvoice", invoiceId,
                           IF st.error # "none" THEN st.error
                           ELSE IF final.valid THEN "none"
                           ELSE "ValidationError")
                  EXCEPT !.item = st.failed,
                         !.stamped = stampedBy(items[invoiceId], "add")]
       /\ UNCHANGED created

\* cancelInvoice without the check of lines 711-713 (already cancelled).
cancelInvoiceNoGuard(invoiceId) ==
  IF invoiceId \notin DOMAIN invoices
    THEN /\ ret' = Response("cancelInvoice", invoiceId, "InvoiceNotFound")
         /\ UNCHANGED <<avail, invoices, items, created>>
  ELSE /\ avail' = restoreLoaded(items[invoiceId], 1, avail, avail)
       /\ invoices' = [invoices EXCEPT ![invoiceId] =
                         [@ EXCEPT !.paymentStatus = "cancelled", !.isActive = FALSE]]
       /\ ret' = [Response("cancelInvoice", invoiceId, "none")
                  EXCEPT !.stamped = stampedBy(items[invoiceId], "add")]
       /\ UNCHANGED <<items, created>>

cancelInvoice(invoiceId) ==
  IF invoiceId \notin DOMAIN invoices
    THEN /\ ret' = Response("cancelInvoice", invoiceId, "InvoiceNotFound")
         /\ UNCHANGED <<avail, invoices, items, created>>
  ELSE IF invoices[invoiceId].paymentStatus = "cancelled"
    THEN /\ ret' = Response("cancelInvoice", invoiceId, "none")
         /\ UNCHANGED <<avail, invoices, items, created>>
  ELSE /\ avail' = restoreLoaded(items[invoiceId], 1, avail, avail)
       /\ invoices' = [invoices EXCEPT ![invoiceId] =
                         [@ EXCEPT !.paymentStatus = "cancelled", !.isActive = FALSE]]
       /\ ret' = [Response("cancelInvoice", invoiceId, "none")
                  EXCEPT !.stamped = stampedBy(items[invoiceId], "add")]
       /\ UNCHANGED <<items, created>>

\* updateInvoiceStatus that also clears isActive when the status is cancelled.
updateInvoiceStatusDeactivating(invoiceId, status, paidAmount) ==
  IF invoiceId \notin DOMAIN invoices
    THEN /\ ret' = Response("updateInvoiceStatus", invoiceId, "InvoiceNotFound")
         /\ UNCHANGED <<avail, invoices, items, created>>
  ELSE IF paidAmount # <<>> /\ paidAmount[1] < 0
    THEN /\ ret' = Response("updateInvoiceStatus", invoiceId, "ValidationError")
         /\ UNCHANGED <<avail, invoices, items, created>>
  ELSE /\ invoices' = [invoices EXCEPT ![invoiceId] =
                         [(IF paidAmount # <<>>
                             THEN [@ EXCEPT !.paymentStatus = status, !.paidAmount = paidAmount[1]]
                             ELSE [@ EXCEPT !.paymentStatus = status])
                          EXCEPT !.isActive = IF status = "cancelled" THEN FALSE ELSE @]]
       /\ ret' = Response("updateInvoiceStatus", invoiceId, "none")
       /\ UNCHANGED <<avail, items, created>>

\* updateInvoiceStatus(invoiceId, status, paidAmount): paidAmount is <<>> for
\* null / not given and <<a>> for the amount a.
updateInvoiceStatus(invoiceId, status, paidAmount) ==
  IF invoiceId \notin DOMAIN invoices
    THEN /\ ret' = Response("updateInvoiceStatus", invoiceId, "InvoiceNotFound")
         /\ UNCHANGED <<avail, invoices, items, created>>
  ELSE IF paidAmount # <<>> /\ paidAmount[1] < 0
    THEN /\ ret' = Response("updateInvoiceStatus", invoiceId, "ValidationError")
         /\ UNCHANGED <<avail, invoices, items, created>>
  ELSE /\ invoices' = [invoices EXCEPT ![invoiceId] =
                         IF paidAmount # <<>>
                           THEN [@ EXCEPT !.paymentStatus = status, !.paidAmount = paidAmount[1]]
                           ELSE [@ EXCEPT !.paymentStatus = status]]
       /\ ret' = Response("updateInvoiceStatus", invoiceId, "none")
       /\ UNCHANGED <<avail, items, created>>

\* ------------------------------------------------------------- routes
\* The restore loop of PATCH /:id/cancel and DELETE /:id: a fresh
\* Product.findByPk for every item.
RECURSIVE restoreFresh(_, _, _)
restoreFresh(rows, i, stock) ==
  IF i > Len(rows) THEN stock
  ELSE restoreFresh(rows, i + 1,
         [stock EXCEPT ![rows[i].productId] =
            updateQuantity(@, rows[i].quantity, "add")])

\* PATCH /api/invoices/:id/cancel
cancelRoute(invoiceId) ==
  IF invoiceId \notin DOMAIN invoices
    THEN /\ ret' = Response("cancelRoute", invoiceId, "InvoiceNotFound")
         /\ UNCHANGED <<avail, invoices, items, created>>
  ELSE IF invoices[invoiceId].paymentStatus = "cancelled"
    THEN /\ ret' = Response("cancelRoute", invoiceId, "AlreadyCancelled")
         /\ UNCHANGED <<avail, invoices, items, created>>
  ELSE /\ avail' = restoreFresh(items[invoiceId], 1, avail)
       /\ invoices' = [invoices EXCEPT ![invoiceId].paymentStatus = "cancelled"]
       /\ ret' = [Response("cancelRoute", invoiceId, "none")
                  EXCEPT !.stamped = stampedBy(items[invoiceId], "add")]
       /\ UNCHANGED <<items, created>>

\* DELETE /api/invoices/:id
deleteRoute(invoiceId) ==
  IF invoiceId \notin DOMAIN invoices
    THEN /\ ret' = Response("deleteRoute", invoiceId, "InvoiceNotFound")
         /\ UNCHANGED <<avail, invoices, items, created>>
  ELSE IF invoices[invoiceId].paymentStatus = "paid"
    THEN /\ ret' = Response("deleteRoute", invoiceId, "CannotDeletePaid")
         /\ UNCHANGED <<avail, invoices, items, created>>
  ELSE /\ avail' = IF invoices[invoiceId].paymentStatus # "cancelled"
                     THEN restoreFresh(items[invoiceId], 1, avail) ELSE avail
       /\ items' = [items EXCEPT ![invoiceId] = <<>>]
       /\ invoices' = [j \in DOMAIN invoices \ {invoiceId} |-> invoices[j]]
       /\ created' = SelectSeq(created, LAMBDA j : j # invoiceId)
       /\ ret' = [Response("deleteRoute", invoiceId, "none")
                  EXCEPT !.stamped = IF invoices[invoiceId].paymentStatus # "cancelled"
                                       THEN stampedBy(items[invoiceId], "add") ELSE {}]

\* PATCH /api/products/:id/quantity
quantityRoute(productId, quantity, operation) ==
  IF quantity < 0
    THEN /\ ret' = Response("quantityRoute", 0, "ValidationError")
         /\ UNCHANGED <<avail, invoices, items, created>>
  ELSE IF productId \notin Products
    THEN /\ ret' = Response("quantityRoute", 0, "ProductNotFound")
         /\ UNCHANGED <<avail, invoices, items, created>>
  ELSE /\ avail' = [avail EXCEPT ![productId] = updateQuantity(@, quantity, operation)]
       /\ ret' = [Response("quantityRoute", 0, "none")
                  EXCEPT !.stamped = IF stampsLastRestocked(operation)
                                       THEN {productId} ELSE {}]
       /\ UNCHANGED <<invoices, items, created>>

\* The bodies of PUT /api/products/:id that productSchemas.update lets through,
\* each field given (<<v>>) or left out (<<>>); the runs send bodies of at
\* most MaxFields fields.
AllProductBodies ==
  [name : {<<>>} \cup {<<n>> : n \in Names},
   barcode : {<<>>} \cup {<<b>> : b \in Barcodes},
   batchNumber : {<<>>} \cup {<<b>> : b \in BatchNumbers \ {"null"}},
   expiryDate : {<<>>} \cup {<<e>> : e \in ExpiryDates \ {"null"}},
   availableQuantity : {<<>>, <<InitQty>>},
   isActive : {<<>>, <<TRUE>>, <<FALSE>>}]

ProductBodies ==
  {body \in AllProductBodies :
     Cardinality({f \in DOMAIN body : body[f] # <<>>}) <= MaxFields}

\* instance.update(values): the fields given are written, the others kept.
given(field, old) == IF field = <<>> THEN old ELSE field[1]

\* PUT /:id that also rewrites the copies of the name on the product's invoice
\* items, as a join on the products table would show them.
productUpdateRenamingItems(id, body) ==
  IF id \notin Products
    THEN /\ ret' = Response("productUpdate", 0, "ProductNotFound")
         /\ UNCHANGED <<avail, invoices, items, created, catalog>>
  ELSE /\ catalog' = [catalog EXCEPT ![id].name = given(body.name, @)]
       /\ items' = [i \in DOMAIN items |->
                      [k \in DOMAIN items[i] |->
                         IF items[i][k].productId = id
                           THEN [items[i][k] EXCEPT !.productName = catalog'[id].name]
                           ELSE items[i][k]]]
       /\ ret' = Response("productUpdate", 0, "none")
       /\ UNCHANGED <<avail, invoices, created>>

\* PUT /api/products/:id
productUpdate(id, body) ==
  IF id \notin Products
    THEN /\ ret' = Response("productUpdate", 0, "ProductNotFound")
         /\ UNCHANGED <<avail, invoices, items, created, catalog>>
  ELSE IF /\ body.barcode # <<>>
          /\ body.barcode[1] # catalog[id].barcode
          /\ \E q \in Products \ {id} : catalog[q].barcode = body.barcode[1]
    THEN /\ ret' = Response("productUpdate", 0, "BarcodeExists")
         /\ UNCHANGED <<avail, invoices, items, created, catalog>>
  ELSE /\ catalog' = [catalog EXCEPT ![id] =
                        [name |-> given(body.name, @.name),
                         barcode |-> given(body.barcode, @.barcode),
                         batchNumber |-> given(body.batchNumber, @.batchNumber),
                         expiryDate |-> given(body.expiryDate, @.expiryDate),
                         isActive |-> given(body.isActive, @.isActive)]]
       /\ avail' = [avail EXCEPT ![id] = given(body.availableQuantity, @)]
       /\ ret' = Response("productUpdate", 0, "none")
       /\ UNCHANGED <<invoices, items, created>>

\* DELETE /api/products/:id (soft delete)
productDelete(id) ==
  IF id \notin Products
    THEN /\ ret' = Response("productDelete", 0, "ProductNotFound")
         /\ UNCHANGED <<avail, invoices, items, created, catalog>>
  ELSE /\ catalog' = [catalog EXCEPT ![id].isActive = FALSE]
       /\ ret' = Response("productDelete", 0, "none")
       /\ UNCHANGED <<avail, invoices, items, created>>

\* ------------------------------------------------------------- specification
Init ==
  /\ avail = [p \in Products |-> InitQty]
  /\ invoices = <<>>
  /\ items = [i \in AllInvoiceIds |-> <<>>]
  /\ created = <<>>
  /\ issued = {}
  /\ ret = Response("none", 0, "none")
  /\ procs = [r \in Procs |-> Idle]
  /\ started = 0
  /\ catalog = [p \in Products |->
                 [name |-> IF p = "p1" THEN "n1" ELSE "n2",
                  barcode |-> IF p = "p1" THEN "b1" ELSE "b2",
                  batchNumber |-> "null", expiryDate |-> "null", isActive |-> TRUE]]

\* issued is the history of the invoice numbers: every number a row of the
\* invoices table has carried, deleted rows included.
Issue == issued' = issued \cup {invoices'[i].invoiceNumber : i \in DOMAIN invoices'}

\* Stock only grows through a release or an inbound adjustment; runs stop
\* growing it at MaxAvail.
Bounded == \A p \in Products : avail'[p] <= MaxAvail

\* The entry points of the one-at-a-time specifications: the whole handler
\* runs as one step, and no request is in flight (procs stays idle).
Alone == Bounded /\ Issue /\ UNCHANGED <<procs, started, catalog>>

CreateInvoice == \E d \in InvoiceInputs : createInvoice(d) /\ Alone
UpdateInvoice == \E i \in InvoiceIds, d \in InvoiceInputs : updateInvoice(i, d) /\ Alone
CancelInvoice == \E i \in InvoiceIds : cancelInvoice(i) /\ Alone
CancelRoute == \E i \in InvoiceIds : cancelRoute(i) /\ Alone
DeleteRoute == \E i \in InvoiceIds : deleteRoute(i) /\ Alone

\* The entry points that reserve and release stock, run one at a time.
Next ==
  \/ CreateInvoice
  \/ UpdateInvoice
  \/ CancelInvoice
  \/ CancelRoute
  \/ DeleteRoute

Spec == Init /\ [][Next]_vars

CreateSingle == \E d \in SingleItemInputs : createInvoice(d) /\ Alone
UpdateSingle ==
  \E i \in InvoiceIds, d \in SingleItemInputs : updateInvoice(i, d) /\ Alone
UpdateInvoiceStatus ==
  \E i \in InvoiceIds, s \in Statuses, a \in StatusPaidAmounts :
    updateInvoiceStatus(i, s, a) /\ Alone
QuantityRoute ==
  \E p \in ProductIds, q \in AdjustQuantities, o \in {"add", "subtract", "set"} :
    quantityRoute(p, q, o) /\ Alone

\* Every entry point that writes an invoice or a product quantity, run one at
\* a time, with single-item requests.
NextAll ==
  \/ CreateSingle
  \/ UpdateSingle
  \/ CancelInvoice
  \/ UpdateInvoiceStatus
  \/ CancelRoute
  \/ DeleteRoute
  \/ QuantityRoute

SpecAll == Init /\ [][NextAll]_vars

\* Every entry point that writes an invoice, run one at a time, with
\* single-item requests.
NextInvoices ==
  \/ CreateSingle
  \/ UpdateSingle
  \/ CancelInvoice
  \/ UpdateInvoiceStatus
  \/ CancelRoute
  \/ DeleteRoute

SpecInvoices == Init /\ [][NextInvoices]_vars

\* The requests of the product specification: one item, quantity 1.
SnapshotInputs ==
  {d \in SingleItemInputs : d.items[1].quantity = 1 /\ d.paymentMethod = "credit"}

\* The products the runs edit: one that is sold, and one that does not exist.
EditedProducts == {"p1", UnknownProduct}

\* A product entry point run alone: the invoice side is idle.
AloneOnProducts == Bounded /\ Issue /\ UNCHANGED <<procs, started>>

CreateSnapshot == \E d \in SnapshotInputs : createInvoice(d) /\ Alone
UpdateSnapshot ==
  \E i \in InvoiceIds, d \in SnapshotInputs : updateInvoice(i, d) /\ Alone
ProductUpdate ==
  \E p \in EditedProducts, body \in ProductBodies :
    productUpdate(p, body) /\ AloneOnProducts
ProductDelete == \E p \in EditedProducts : productDelete(p) /\ AloneOnProducts

\* Sales and edits of invoices next to the edits of the products they name.
NextSnapshot ==
  \/ CreateSnapshot
  \/ UpdateSnapshot
  \/ ProductUpdate
  \/ ProductDelete

SpecSnapshot == Init /\ [][NextSnapshot]_vars

TypeOK ==
  /\ avail \in [Products -> 0..MaxAvail]
  /\ catalog \in [Products -> ProductRows]
  /\ DOMAIN invoices \subseteq AllInvoiceIds
  /\ \A i \in DOMAIN invoices : invoices[i].paymentStatus \in Statuses

\* Successful calls of the three service operations only, run one at a time.
CreateOk == CreateInvoice /\ ret'.error = "none"
UpdateOk == UpdateInvoice /\ ret'.error = "none"
CancelOk == CancelInvoice /\ ret'.error = "none"

NextService ==
  \/ CreateOk
  \/ UpdateOk
  \/ CancelOk

SpecService == Init /\ [][NextService]_vars

\* One invoice's round trip: created, edited while pending, cancelled.
CreateFirst == CreateOk /\ DOMAIN invoices = {}
EditPending == UpdateOk /\ ret'.was = "pending"
CancelOnce == CancelOk /\ ret'.was # "cancelled"

NextRoundTrip ==
  \/ CreateFirst
  \/ EditPending
  \/ CancelOnce

SpecRoundTrip == Init /\ [][NextRoundTrip]_vars

\* ------------------------------------------------------------- amounts
\* Requests that exercise the arithmetic of the totals: item discounts below
\* and above the line's price, an invoice discount above subtotal + tax, a
\* caller-supplied paid amount, and a quantity the InvoiceItem model rejects.
MoneyQuantities == 0..MaxItemQty
MoneyItemDiscounts == {0, 3}
MoneyDiscounts == {0, 3}
MoneyTaxes == {0, 1}
MoneyPaidAmounts == {0, 1}

MoneyItemInputs ==
  [productId : {"p1"}, quantity : MoneyQuantities,
   unitPrice : UnitPrices, discountAmount : MoneyItemDiscounts]

MoneyInputs ==
  [items : [1..1 -> MoneyItemInputs], discountAmount : MoneyDiscounts,
   taxAmount : MoneyTaxes, paymentMethod : PaymentMethods,
   paidAmount : MoneyPaidAmounts]

\* The call runs as one step; request 1 keeps its entry point and arguments.
Called(op, invoiceData) ==
  /\ Bounded
  /\ Issue
  /\ procs' = [procs EXCEPT ![1] = [Idle EXCEPT !.pc = "done", !.op = op,
                                                !.data = <<invoiceData>>]]
  /\ UNCHANGED <<started, catalog>>

CreateMoney ==
  \E d \in MoneyInputs : createInvoice(d) /\ Called("createInvoice", d)
UpdateMoney ==
  \E i \in InvoiceIds, d \in MoneyInputs :
    updateInvoice(i, d) /\ Called("updateInvoice", d)
CancelMoney ==
  \E i \in InvoiceIds : cancelInvoice(i) /\ Called("cancelInvoice", <<>>)

NextMoney ==
  \/ CreateMoney
  \/ UpdateMoney
  \/ CancelMoney

SpecMoney == Init /\ [][NextMoney]_vars

\* Requests that pay nothing, a part or the whole: one item of p1 at price 2,
\* no discount and no tax, paidAmount 0 or 1.
PartPaidInputs ==
  {d \in MoneyInputs : /\ d.discountAmount = 0 /\ d.taxAmount = 0
                       /\ d.items[1].discountAmount = 0}
PartPaidAmounts == {<<>>, <<1>>}

CreatePartPaid == \E d \in PartPaidInputs : createInvoice(d) /\ Alone
UpdatePartPaid ==
  \E i \in InvoiceIds, d \in PartPaidInputs : updateInvoice(i, d) /\ Alone
SetStatus ==
  \E i \in InvoiceIds, s \in Statuses, a \in PartPaidAmounts :
    updateInvoiceStatus(i, s, a) /\ Alone

\* Every entry point that writes paymentStatus, run one at a time, with
\* requests that pay a part.
NextPartPaid ==
  \/ CreatePartPaid
  \/ UpdatePartPaid
  \/ CancelInvoice
  \/ SetStatus
  \/ CancelRoute
  \/ DeleteRoute

SpecPartPaid == Init /\ [][NextPartPaid]_vars

\* ------------------------------------------------------------- numbering alone
\* generateInvoiceNumber on tables it did not fill itself.  The invoiceNumber
\* of the first row is any string of up to MaxChars characters out of a digit
\* that carries, a digit that does not and a letter, or the prefix and six
\* such digits; a second row, when there is one, was created before or after
\* the first.
MaxChars == 4
NumberChars == {"0", "9", "A"}
NumberDigits == {"0", "9"}

ShortNumbers == UNION {[1..n -> NumberChars] : n \in 0..MaxChars}
PrefixedNumbers ==
  {invoiceNumberPrefix \o d : d \in [1..invoiceNumberLength -> NumberDigits]}
OtherNumbers == {invoiceNumberPrefix \o <<"0", "0", "0", "0", "0", "5">>, <<"A">>}

invoiceNumbered(n) ==
  newInvoice(n, [discountAmount |-> 0, taxAmount |-> 0, paymentMethod |-> "credit"])

NumberTables ==
  {<<>>} \cup {<<invoiceNumbered(n)>> : n \in ShortNumbers \cup PrefixedNumbers}
         \cup {<<invoiceNumbered(n), invoiceNumbered(o)>> :
                 n \in ShortNumbers \cup PrefixedNumbers, o \in OtherNumbers}

InitNumber ==
  /\ avail = [p \in Products |-> InitQty]
  /\ invoices \in NumberTables
  /\ items = [i \in AllInvoiceIds |-> <<>>]
  /\ created \in {o \in [DOMAIN invoices -> DOMAIN invoices] :
                    \A i \in DOMAIN invoices : \E k \in DOMAIN o : o[k] = i}
  /\ issued = {invoices[i].invoiceNumber : i \in DOMAIN invoices}
  /\ ret = Response("none", 0, "none")
  /\ procs = [r \in Procs |-> Idle]
  /\ started = 0
  /\ catalog = [p \in Products |->
                 [name |-> IF p = "p1" THEN "n1" ELSE "n2",
                  barcode |-> IF p = "p1" THEN "b1" ELSE "b2",
                  batchNumber |-> "null", expiryDate |-> "null", isActive |-> TRUE]]

\* A call of generateInvoiceNumber: request 1 keeps the string returned.
GenerateNumber ==
  /\ procs[1].pc = "idle"
  /\ procs' = [procs EXCEPT ![1] =
                 [Idle EXCEPT !.pc = "done", !.op = "generateInvoiceNumber",
                              !.number = generateInvoiceNumber(invoices, created)]]
  /\ UNCHANGED <<avail, invoices, items, created, issued, ret, started, catalog>>

NextNumber == GenerateNumber

SpecNumber == InitNumber /\ [][NextNumber]_vars

\* ------------------------------------------------------------- interleaved requests
\* The same handlers, one await at a time: every step is one database call
\* of the request r (a query or a save) together with the synchronous code
\* that follows it up to the next await.  A request's first step also
\* stands for its arrival.
CanStart(r) == procs[r].pc \in {"idle", "done"} /\ started < MaxRequests

Goto(r, rec) == procs' = [procs EXCEPT ![r] = rec]

\* The request ends: its locals are dropped, its outcome stays.
FinishAs(r, op, error) ==
  procs' = [procs EXCEPT ![r] = [Idle EXCEPT !.pc = "done", !.op = op, !.error = error]]

Finish(r, error) == FinishAs(r, procs[r].op, error)

HeldIds == {procs[q].id : q \in Procs}

\* Each item's own Product instance, as the include of findByPk loads it.
loadProducts(rows) == [k \in 1..Len(rows) |-> avail[rows[k].productId]]

\* createInvoice: generateInvoiceNumber's findOne.
cNumber(r) ==
  \E d \in SingleItemInputs :
    /\ CanStart(r)
    /\ started' = started + 1
    /\ Goto(r, [Idle EXCEPT !.pc = "c_insert", !.op = "createInvoice", !.data = <<d>>,
                            !.number = generateInvoiceNumber(invoices, created)])
    /\ UNCHANGED <<avail, invoices, items, created, ret>>
    /\ Issue
    /\ UNCHANGED catalog

\* Invoice.create on a table without the unique index on invoiceNumber.
cInsertNoUnique(r) ==
  /\ procs[r].pc = "c_insert"
  /\ IF FALSE
       THEN /\ Finish(r, "UniqueConstraint")
            /\ UNCHANGED <<avail, invoices, items, created, ret, started>>
     ELSE /\ ConcInvoiceIds \ (DOMAIN invoices \cup HeldIds) # {}
          /\ LET id == CHOOSE i \in ConcInvoiceIds \ (DOMAIN invoices \cup HeldIds) :
                         \A j \in ConcInvoiceIds \ (DOMAIN invoices \cup HeldIds) : i <= j
             IN /\ invoices' = (id :> newInvoice(procs[r].number, procs[r].data[1])) @@ invoices
                /\ created' = Append(created, id)
                /\ Goto(r, [procs[r] EXCEPT !.pc = "find", !.id = id, !.k = 1])
          /\ UNCHANGED <<avail, items, ret, started>>
  /\ Issue
  /\ UNCHANGED catalog

\* createInvoice: Invoice.create; invoiceNumber is unique.
cInsert(r) ==
  /\ procs[r].pc = "c_insert"
  /\ IF \E j \in DOMAIN invoices : invoices[j].invoiceNumber = procs[r].number
       THEN /\ Finish(r, "UniqueConstraint")
            /\ UNCHANGED <<avail, invoices, items, created, ret, started>>
     ELSE /\ ConcInvoiceIds \ (DOMAIN invoices \cup HeldIds) # {}
          /\ LET id == CHOOSE i \in ConcInvoiceIds \ (DOMAIN invoices \cup HeldIds) :
                         \A j \in ConcInvoiceIds \ (DOMAIN invoices \cup HeldIds) : i <= j
             IN /\ invoices' = (id :> newInvoice(procs[r].number, procs[r].data[1])) @@ invoices
                /\ created' = Append(created, id)
                /\ Goto(r, [procs[r] EXCEPT !.pc = "find", !.id = id, !.k = 1])
          /\ UNCHANGED <<avail, items, ret, started>>
  /\ Issue
  /\ UNCHANGED catalog

\* Item loop (createInvoice and updateInvoice): Product.findByPk and the checks
\* on the instance it returns.
loopFind(r) ==
  /\ procs[r].pc = "find"
  /\ LET itemData == procs[r].data[1].items[procs[r].k]
     IN IF itemData.productId \notin Products THEN Finish(r, "ProductNotFound")
        ELSE IF avail[itemData.productId] < itemData.quantity
          THEN Finish(r, "InsufficientStock")
        ELSE Goto(r, [procs[r] EXCEPT !.pc = "item", !.product = avail[itemData.productId]])
  /\ UNCHANGED <<avail, invoices, items, created, ret, started>>
  /\ Issue
  /\ UNCHANGED catalog

\* Item loop: InvoiceItem.create (validation, then the insert; invoice_id is
\* a foreign key).
loopItem(r) ==
  /\ procs[r].pc = "item"
  /\ LET itemData == procs[r].data[1].items[procs[r].k]
         itemTotalAfterDiscount ==
           itemData.quantity * itemData.unitPrice - itemData.discountAmount
     IN IF ~validItem(itemData.quantity, itemTotalAfterDiscount)
          THEN Finish(r, "ValidationError") /\ UNCHANGED items
        ELSE IF procs[r].id \notin DOMAIN invoices
          THEN Finish(r, "ForeignKey") /\ UNCHANGED items
        ELSE /\ items' = [items EXCEPT ![procs[r].id] =
                            Append(@, newItem(itemData, itemTotalAfterDiscount))]
             /\ Goto(r, [procs[r] EXCEPT !.pc = "save",
                                        !.subtotal = @ + itemTotalAfterDiscount])
  /\ UNCHANGED <<avail, invoices, created, ret, started>>
  /\ Issue
  /\ UNCHANGED catalog

\* Item loop: product.updateQuantity(quantity, 'subtract') saves the instance.
loopSave(r) ==
  /\ procs[r].pc = "save"
  /\ LET itemData == procs[r].data[1].items[procs[r].k]
     IN /\ avail' = [avail EXCEPT ![itemData.productId] =
                       updateQuantity(procs[r].product, itemData.quantity, "subtract")]
        /\ IF procs[r].k < Len(procs[r].data[1].items)
             THEN Goto(r, [procs[r] EXCEPT !.pc = "find", !.k = @ + 1])
             ELSE Goto(r, [procs[r] EXCEPT !.pc = "totals"])
  /\ Bounded
  /\ UNCHANGED <<invoices, items, created, ret, started>>
  /\ Issue
  /\ UNCHANGED catalog

\* createInvoice and updateInvoice: the last invoice.update, an UPDATE of the
\* four fields on the row, if it is still there.
loopTotals(r) ==
  /\ procs[r].pc = "totals"
  /\ LET id == procs[r].id
         final == withTotals(IF id \in DOMAIN invoices THEN invoices[id]
                             ELSE newInvoice(procs[r].number, procs[r].data[1]),
                             procs[r].data[1], procs[r].subtotal)
     IN IF ~final.valid THEN Finish(r, "ValidationError") /\ UNCHANGED invoices
        ELSE IF id \notin DOMAIN invoices THEN Finish(r, "none") /\ UNCHANGED invoices
        ELSE /\ invoices' = [invoices EXCEPT ![id] = final.row]
             /\ Finish(r, "none")
  /\ UNCHANGED <<avail, items, created, ret, started>>
  /\ Issue
  /\ UNCHANGED catalog

\* updateInvoice: Invoice.findByPk with its items and their products, and the
\* checks on what it returns.
uLoad(r) ==
  \E i \in ConcInvoiceIds, d \in SingleItemInputs :
    /\ CanStart(r)
    /\ started' = started + 1
    /\ IF i \notin DOMAIN invoices THEN FinishAs(r, "updateInvoice", "InvoiceNotFound")
       ELSE IF invoices[i].paymentStatus = "paid"
         THEN FinishAs(r, "updateInvoice", "InvoiceImmutable")
       ELSE Goto(r, [Idle EXCEPT !.pc = IF invoices[i].paymentStatus = "cancelled"
                                          THEN "u_react"
                                        ELSE IF items[i] # <<>> THEN "restore"
                                        ELSE "u_destroy",
                                 !.op = "updateInvoice", !.id = i, !.data = <<d>>,
                                 !.status = invoices[i].paymentStatus,
                                 !.rows = items[i], !.loaded = loadProducts(items[i]),
                                 !.k = 1])
    /\ UNCHANGED <<avail, invoices, items, created, ret>>
    /\ Issue
    /\ UNCHANGED catalog

\* updateInvoice: invoice.update({ isActive: true }).
uReact(r) ==
  /\ procs[r].pc = "u_react"
  /\ invoices' = IF procs[r].id \in DOMAIN invoices
                   THEN [invoices EXCEPT ![procs[r].id].isActive = TRUE] ELSE invoices
  /\ Goto(r, [procs[r] EXCEPT !.pc = IF procs[r].rows # <<>> THEN "restore" ELSE "u_destroy"])
  /\ UNCHANGED <<avail, items, created, ret, started>>
  /\ Issue
  /\ UNCHANGED catalog

\* updateInvoice and cancelInvoice: item.product.updateQuantity(quantity, 'add')
\* saves the instance loaded with the invoice.
restore(r) ==
  /\ procs[r].pc = "restore"
  /\ LET item == procs[r].rows[procs[r].k]
     IN avail' = [avail EXCEPT ![item.productId] =
                    updateQuantity(procs[r].loaded[procs[r].k], item.quantity, "add")]
  /\ IF procs[r].k < Len(procs[r].rows)
       THEN Goto(r, [procs[r] EXCEPT !.k = @ + 1])
       ELSE Goto(r, [procs[r] EXCEPT !.pc = IF procs[r].op = "updateInvoice"
                                              THEN "u_destroy" ELSE "k_update"])
  /\ Bounded
  /\ UNCHANGED <<invoices, items, created, ret, started>>
  /\ Issue
  /\ UNCHANGED catalog

\* updateInvoice: InvoiceItem.destroy({ where: { invoiceId } }).
uDestroy(r) ==
  /\ procs[r].pc = "u_destroy"
  /\ items' = [items EXCEPT ![procs[r].id] = <<>>]
  /\ Goto(r, [procs[r] EXCEPT !.pc = "u_basic"])
  /\ UNCHANGED <<avail, invoices, created, ret, started>>
  /\ Issue
  /\ UNCHANGED catalog

\* updateInvoice: invoice.update of the basic info.
uBasic(r) ==
  /\ procs[r].pc = "u_basic"
  /\ LET id == procs[r].id
         invoiceData == procs[r].data[1]
     IN invoices' = IF id \in DOMAIN invoices
                      THEN [invoices EXCEPT ![id] =
                              [@ EXCEPT !.paymentMethod = invoiceData.paymentMethod,
                                        !.discountAmount = invoiceData.discountAmount,
                                        !.taxAmount = invoiceData.taxAmount]]
                      ELSE invoices
  /\ Goto(r, [procs[r] EXCEPT !.pc = "find", !.k = 1, !.subtotal = 0])
  /\ UNCHANGED <<avail, items, created, ret, started>>
  /\ Issue
  /\ UNCHANGED catalog

\* cancelInvoice: Invoice.findByPk with its items and their products.
kLoad(r) ==
  \E i \in ConcInvoiceIds :
    /\ CanStart(r)
    /\ started' = started + 1
    /\ IF i \notin DOMAIN invoices THEN FinishAs(r, "cancelInvoice", "InvoiceNotFound")
       ELSE IF invoices[i].paymentStatus = "cancelled" THEN FinishAs(r, "cancelInvoice", "none")
       ELSE Goto(r, [Idle EXCEPT !.pc = IF items[i] # <<>> THEN "restore" ELSE "k_update",
                                 !.op = "cancelInvoice", !.id = i,
                                 !.status = invoices[i].paymentStatus,
                                 !.rows = items[i], !.loaded = loadProducts(items[i]),
                                 !.k = 1])
    /\ UNCHANGED <<avail, invoices, items, created, ret>>
    /\ Issue
    /\ UNCHANGED catalog

\* cancelInvoice: invoice.update({ paymentStatus: 'cancelled', isActive: false }).
kUpdate(r) ==
  /\ procs[r].pc = "k_update"
  /\ invoices' = IF procs[r].id \in DOMAIN invoices
                   THEN [invoices EXCEPT ![procs[r].id] =
                           [@ EXCEPT !.paymentStatus = "cancelled", !.isActive = FALSE]]
                   ELSE invoices
  /\ Finish(r, "none")
  /\ UNCHANGED <<avail, items, created, ret, started>>
  /\ Issue
  /\ UNCHANGED catalog

\* DELETE /:id: Invoice.findByPk with its items.
dLoad(r) ==
  \E i \in ConcInvoiceIds :
    /\ CanStart(r)
    /\ started' = started + 1
    /\ IF i \notin DOMAIN invoices THEN FinishAs(r, "deleteRoute", "InvoiceNotFound")
       ELSE IF invoices[i].paymentStatus = "paid"
         THEN FinishAs(r, "deleteRoute", "CannotDeletePaid")
       ELSE Goto(r, [Idle EXCEPT !.pc = IF invoices[i].paymentStatus # "cancelled"
                                             /\ items[i] # <<>>
                                          THEN "d_find" ELSE "d_items",
                                 !.op = "deleteRoute", !.id = i,
                                 !.status = invoices[i].paymentStatus,
                                 !.rows = items[i], !.k = 1])
    /\ UNCHANGED <<avail, invoices, items, created, ret>>
    /\ Issue
    /\ UNCHANGED catalog

\* DELETE /:id: Product.findByPk(item.productId).
dFind(r) ==
  /\ procs[r].pc = "d_find"
  /\ Goto(r, [procs[r] EXCEPT !.pc = "d_save",
                             !.product = avail[procs[r].rows[procs[r].k].productId]])
  /\ UNCHANGED <<avail, invoices, items, created, ret, started>>
  /\ Issue
  /\ UNCHANGED catalog

\* DELETE /:id: product.updateQuantity(item.quantity, 'add').
dSave(r) ==
  /\ procs[r].pc = "d_save"
  /\ LET item == procs[r].rows[procs[r].k]
     IN avail' = [avail EXCEPT ![item.productId] =
                    updateQuantity(procs[r].product, item.quantity, "add")]
  /\ IF procs[r].k < Len(procs[r].rows)
       THEN Goto(r, [procs[r] EXCEPT !.pc = "d_find", !.k = @ + 1])
       ELSE Goto(r, [procs[r] EXCEPT !.pc = "d_items"])
  /\ Bounded
  /\ UNCHANGED <<invoices, items, created, ret, started>>
  /\ Issue
  /\ UNCHANGED catalog

\* DELETE /:id: InvoiceItem.destroy({ where: { invoiceId } }).
dItems(r) ==
  /\ procs[r].pc = "d_items"
  /\ items' = [items EXCEPT ![procs[r].id] = <<>>]
  /\ Goto(r, [procs[r] EXCEPT !.pc = "d_destroy"])
  /\ UNCHANGED <<avail, invoices, created, ret, started>>
  /\ Issue
  /\ UNCHANGED catalog

\* DELETE /:id: invoice.destroy(); an item inserted since keeps the row.
dDestroy(r) ==
  /\ procs[r].pc = "d_destroy"
  /\ LET id == procs[r].id
     IN IF items[id] # <<>> THEN Finish(r, "ForeignKey") /\ UNCHANGED <<invoices, created>>
        ELSE /\ invoices' = [j \in DOMAIN invoices \ {id} |-> invoices[j]]
             /\ created' = SelectSeq(created, LAMBDA j : j # id)
             /\ Finish(r, "none")
  /\ UNCHANGED <<avail, items, ret, started>>
  /\ Issue
  /\ UNCHANGED catalog

\* PATCH /:id/quantity: the check of the body and Product.findByPk.
qFind(r) ==
  \E p \in ProductIds, q \in AdjustQuantities, o \in {"add", "subtract", "set"} :
    /\ CanStart(r)
    /\ started' = started + 1
    /\ IF q < 0 THEN FinishAs(r, "quantityRoute", "ValidationError")
       ELSE IF p \notin Products THEN FinishAs(r, "quantityRoute", "ProductNotFound")
       ELSE Goto(r, [Idle EXCEPT !.pc = "q_save", !.op = "quantityRoute",
                                 !.data = <<[productId |-> p, quantity |-> q, operation |-> o]>>,
                                 !.product = avail[p]])
    /\ UNCHANGED <<avail, invoices, items, created, ret>>
    /\ Issue
    /\ UNCHANGED catalog

\* PATCH /:id/quantity: product.updateQuantity(quantity, operation).
qSave(r) ==
  /\ procs[r].pc = "q_save"
  /\ LET a == procs[r].data[1]
     IN avail' = [avail EXCEPT ![a.productId] =
                    updateQuantity(procs[r].product, a.quantity, a.operation)]
  /\ Finish(r, "none")
  /\ Bounded
  /\ UNCHANGED <<invoices, items, created, ret, started>>
  /\ Issue
  /\ UNCHANGED catalog

NextConc ==
  \E r \in Procs :
    \/ cNumber(r) \/ cInsert(r)
    \/ loopFind(r) \/ loopItem(r) \/ loopSave(r) \/ loopTotals(r)
    \/ uLoad(r) \/ uReact(r) \/ restore(r) \/ uDestroy(r) \/ uBasic(r)
    \/ kLoad(r) \/ kUpdate(r)
    \/ dLoad(r) \/ dFind(r) \/ dSave(r) \/ dItems(r) \/ dDestroy(r)
    \/ qFind(r) \/ qSave(r)

SpecConc == Init /\ [][NextConc]_vars

\* ------------------------------------------------------------- claims
\* The quantity of product p on the items of the invoices that are not cancelled.
RECURSIVE ReservedIn(_, _)
ReservedIn(ids, p) ==
  IF ids = {} THEN 0
  ELSE LET i == CHOOSE j \in ids : TRUE
       IN (IF invoices[i].paymentStatus # "cancelled" THEN SumQty(items[i], p) ELSE 0)
          + ReservedIn(ids \ {i}, p)

Reserved(p) == ReservedIn(DOMAIN invoices, p)

\* C1: after any sequence of successful createInvoice, updateInvoice and
\* cancelInvoice calls, every product's available quantity plus the quantity
\* on the items of the non-cancelled invoices is its initial quantity.
C1_StockConservation == \A p \in Products : avail[p] + Reserved(p) = InitQty

\* C2: in every state of every interleaving of createInvoice, updateInvoice,
\* cancelInvoice, invoice deletion and updateQuantity requests, no product's
\* available quantity is negative.
C2_NonNegative == \A p \in Products : avail[p] >= 0

\* A quantity adjustment has completed while a createInvoice was between two
\* of its awaits, and a product is out of stock.
C2_Witness ==
  \E r \in Procs, q \in Procs :
    /\ procs[r].pc = "done" /\ procs[r].op = "quantityRoute" /\ procs[r].error = "none"
    /\ procs[q].op = "createInvoice" /\ procs[q].pc \in {"find", "item", "save", "totals"}
    /\ avail["p1"] = 0

\* C3: a createInvoice or updateInvoice call that fails with insufficient stock
\* for an item asking more than the product had when the call began leaves that
\* product's available quantity as it was before the call.
C3_InsufficientStockUnchanged ==
  [][(/\ ret'.op \in {"createInvoice", "updateInvoice"}
      /\ ret'.error = "InsufficientStock"
      /\ ret'.item[1].quantity > avail[ret'.item[1].productId])
     => avail'[ret'.item[1].productId] = avail[ret'.item[1].productId]]_vars

\* C4: a createInvoice call that fails on an item (stock or product lookup)
\* leaves every product's available quantity as it was before the call.
C4_FailedCreateRollsBack ==
  [][(/\ ret'.op = "createInvoice"
      /\ ret'.error \in {"InsufficientStock", "ProductNotFound"})
     => avail' = avail]_vars

\* C5: a successful createInvoice lowers every product's available quantity by
\* exactly the quantity on the new invoice's items that reference it (by 0
\* for a product no item references).
C5_CreateReservesExactly ==
  [][(ret'.op = "createInvoice" /\ ret'.error = "none")
     => \A p \in Products :
          avail'[p] = avail[p] - SumQty(items'[ret'.id], p)]_vars

C5_Witness ==
  /\ ret.op = "createInvoice" /\ ret.error = "none"
  /\ Len(items[ret.id]) = 2
  /\ SumQty(items[ret.id], "p1") = 2
  /\ avail["p1"] = InitQty - 2
  /\ invoices[ret.id].subtotal = 4

\* C6: during a round trip (create, edits while pending, cancel) every
\* product's available quantity is the initial quantity minus the quantity on
\* the invoice, and the initial quantity again once the invoice is cancelled.
C6_RoundTrip ==
  \A i \in DOMAIN invoices, p \in Products :
    IF invoices[i].paymentStatus = "cancelled"
      THEN avail[p] = InitQty
      ELSE avail[p] = InitQty - SumQty(items[i], p)

\* C7: cancelInvoice on an invoice that is already cancelled changes no
\* invoice, no item and no product quantity.
C7_CancelIdempotent ==
  [][(ret'.op = "cancelInvoice" /\ ret'.was = "cancelled")
     => (ret'.error = "none" /\ UNCHANGED <<avail, invoices, items, created>>)]_vars

C7_Witness ==
  /\ ret.op = "cancelInvoice" /\ ret.was = "cancelled"
  /\ items[ret.id] # <<>>

\* C8: updateInvoice on a paid invoice is rejected and changes no product
\* quantity, no item and no field of the invoice.
C8_PaidImmutable ==
  [][(ret'.op = "updateInvoice" /\ ret'.was = "paid")
     => (ret'.error = "InvoiceImmutable"
         /\ UNCHANGED <<avail, invoices, items, created>>)]_vars

C8_Witness ==
  /\ ret.op = "updateInvoice" /\ ret.was = "paid"
  /\ items[ret.id] # <<>>

\* C9 as stated: a cancelled invoice never gets another paymentStatus.
C9_CancelledTerminal ==
  [][\A i \in DOMAIN invoices :
       (invoices[i].paymentStatus = "cancelled" /\ i \in DOMAIN invoices')
       => invoices'[i].paymentStatus = "cancelled"]_vars

\* C9 amended: a cancelled invoice leaves cancelled only through a successful
\* updateInvoice, which makes it active and pending or paid, or through
\* updateInvoiceStatus; no other entry point changes its status.
C9_CancelledLeftOnlyByEdit ==
  [][\A i \in DOMAIN invoices :
       (/\ invoices[i].paymentStatus = "cancelled"
        /\ i \in DOMAIN invoices'
        /\ invoices'[i].paymentStatus # "cancelled")
       => \/ /\ ret'.op = "updateInvoice" /\ ret'.id = i /\ ret'.error = "none"
             /\ invoices'[i].paymentStatus \in {"pending", "paid"}
             /\ invoices'[i].isActive
          \/ ret'.op = "updateInvoiceStatus" /\ ret'.id = i]_vars

C9_Witness ==
  /\ ret.op = "updateInvoice" /\ ret.was = "cancelled" /\ ret.error = "none"
  /\ invoices[ret.id].paymentStatus = "pending"

\* C10: once a createInvoice or updateInvoice call on an invoice has ended,
\* the invoice's subtotal is the sum of its items' line totals.
C10_SubtotalIsSum ==
  (ret.op \in {"createInvoice", "updateInvoice"} /\ ret.id \in DOMAIN invoices)
  => invoices[ret.id].subtotal = SumTotals(items[ret.id])

\* C11: once a createInvoice or updateInvoice call on an invoice has
\* completed, the stored totalAmount of that invoice is its stored subtotal
\* minus its stored discountAmount plus its stored taxAmount.
C11_TotalFormula ==
  (ret.op \in {"createInvoice", "updateInvoice"} /\ ret.id \in DOMAIN invoices)
    => invoices[ret.id].totalAmount =
         invoices[ret.id].subtotal - invoices[ret.id].discountAmount
           + invoices[ret.id].taxAmount

\* C12: no persisted invoice has a negative totalAmount, whatever discount,
\* tax and items the request carries.
C12_TotalNonNegative == \A i \in DOMAIN invoices : invoices[i].totalAmount >= 0

\* A call has ended in the rejection of its totals update: the invoice
\* discount it carried is larger than the subtotal of its items plus the tax.
C12_Witness ==
  /\ ret.op \in {"createInvoice", "updateInvoice"}
  /\ ret.error = "ValidationError" /\ ret.item = <<>>
  /\ items[ret.id] # <<>>
  /\ procs[1].data[1].discountAmount > SumTotals(items[ret.id]) + procs[1].data[1].taxAmount
  /\ invoices[ret.id].totalAmount >= 0

\* C13: every persisted invoice item has totalAmount = quantity * unitPrice -
\* discountAmount, totalAmount >= 0 and quantity >= 1; and a call that is
\* rejected for an item whose discount exceeds quantity * unitPrice persists
\* no row for it and takes nothing from its product (the product has what it
\* had before the call plus what the release of the old items returned).
C13_ItemRows ==
  [][/\ \A i \in AllInvoiceIds : \A k \in DOMAIN items'[i] :
          /\ items'[i][k].totalAmount =
               items'[i][k].quantity * items'[i][k].unitPrice - items'[i][k].discountAmount
          /\ items'[i][k].totalAmount >= 0
          /\ items'[i][k].quantity >= 1
     /\ (/\ ret'.error = "ValidationError" /\ ret'.item # <<>>
         /\ ret'.item[1].discountAmount > ret'.item[1].quantity * ret'.item[1].unitPrice)
        => /\ items'[ret'.id] = <<>>
           /\ avail'[ret'.item[1].productId] =
                avail[ret'.item[1].productId]
                  + SumQty(items[ret'.id], ret'.item[1].productId)]_vars

C13_Witness ==
  /\ ret.error = "ValidationError" /\ ret.item # <<>>
  /\ ret.item[1].quantity >= 1
  /\ ret.item[1].discountAmount > ret.item[1].quantity * ret.item[1].unitPrice
  /\ items[ret.id] = <<>>
  /\ avail[ret.item[1].productId] = InitQty

\* The number an invoice number carries after its prefix.
numberOf(invoiceNumber) == parseInt(trailingDigits(invoiceNumber))

\* C14: the number given to a newly inserted invoice is greater than every
\* number given to an invoice before it, the deleted ones included, and the
\* first invoice of an empty history is INV000001.
C14_StrictlyIncreasing ==
  [][\A i \in DOMAIN invoices' \ DOMAIN invoices :
       /\ \A n \in issued : numberOf(invoices'[i].invoiceNumber) > numberOf(n)
       /\ issued = {} => invoices'[i].invoiceNumber = formatInvoiceNumber(1)]_vars

\* C15: no two persisted invoices carry the same invoice number, in any
\* interleaving of the requests.
C15_UniqueNumbers ==
  \A i \in DOMAIN invoices, j \in DOMAIN invoices :
    i # j => invoices[i].invoiceNumber # invoices[j].invoiceNumber

\* Two createInvoice requests read the same last invoice; one inserted its
\* invoice and the other's insert was rejected.
C15_Witness ==
  \E r \in Procs, q \in Procs :
    /\ procs[r].op = "createInvoice" /\ procs[r].error = "UniqueConstraint"
    /\ procs[q].op = "createInvoice" /\ procs[q].pc # "c_insert"
    /\ procs[q].error # "UniqueConstraint"
    /\ started = 2
    /\ Cardinality(DOMAIN invoices) = 1

\* Two createInvoice requests, and no other, have both succeeded with items
\* on the product p whose quantities add up to more than p had.
Oversold(p) ==
  /\ started = 2
  /\ \A r \in Procs :
       procs[r].pc = "done" /\ procs[r].op = "createInvoice" /\ procs[r].error = "none"
  /\ \A i \in ConcInvoiceIds :
       i \in DOMAIN invoices /\ Len(items[i]) = 1 /\ items[i][1].productId = p
  /\ items[1][1].quantity + items[2][1].quantity > InitQty

\* C16: whenever two concurrent createInvoice calls have both succeeded on a
\* product for more than it had, each has written the quantity it read at its
\* availability check minus its own: the product is left with the initial
\* quantity minus one call's quantity, and more is reserved than existed.
C16_OversellRace ==
  \A p \in Products :
    Oversold(p) =>
      /\ avail[p] \in {InitQty - items[i][1].quantity : i \in ConcInvoiceIds}
      /\ avail[p] + items[1][1].quantity + items[2][1].quantity > InitQty

C16_Witness == Oversold("p1") /\ avail["p1"] >= 0

\* The last call was a createInvoice or updateInvoice that returned.
Succeeded ==
  /\ ret.op \in {"createInvoice", "updateInvoice"} /\ ret.error = "none"
  /\ procs[1].op = ret.op

\* C17: after a successful createInvoice or updateInvoice the stored
\* paidAmount is the caller's paid amount when that is positive, else the
\* totalAmount for cash, card, upi and netbanking, else 0.
C17_PaidAmount ==
  Succeeded =>
    LET invoiceData == procs[1].data[1]
        invoice == invoices[ret.id]
    IN invoice.paidAmount =
         IF invoiceData.paidAmount > 0 THEN invoiceData.paidAmount
         ELSE IF invoiceData.paymentMethod \in {"cash", "card", "upi", "netbanking"}
           THEN invoice.totalAmount
         ELSE 0

\* A cash invoice for which the caller supplied a smaller positive amount.
C17_Witness ==
  /\ Succeeded
  /\ procs[1].data[1].paymentMethod = "cash"
  /\ procs[1].data[1].paidAmount = 1
  /\ invoices[ret.id].totalAmount > 1
  /\ invoices[ret.id].paidAmount = 1

\* C18: after a successful createInvoice or updateInvoice the paymentStatus
\* is paid when paidAmount >= totalAmount and pending when it is not.
C18_StatusFromAmounts ==
  Succeeded =>
    invoices[ret.id].paymentStatus =
      IF invoices[ret.id].paidAmount >= invoices[ret.id].totalAmount
        THEN "paid" ELSE "pending"

\* An edit has left a pending invoice with a part of its total paid.
C18_Witness ==
  /\ Succeeded /\ ret.op = "updateInvoice" /\ ret.was = "pending"
  /\ invoices[ret.id].paidAmount > 0
  /\ invoices[ret.id].paidAmount < invoices[ret.id].totalAmount
  /\ invoices[ret.id].paymentStatus = "pending"

\* C19: cancelInvoice on an invoice that is not cancelled returns every
\* item's quantity to its product, sets paymentStatus to cancelled and
\* isActive to false, and changes neither the items nor the totals.
C19_CancelReleases ==
  [][(ret'.op = "cancelInvoice" /\ ret'.error = "none"
        /\ ret'.was \in {"pending", "partial", "paid"})
     => /\ \A p \in Products : avail'[p] = avail[p] + SumQty(items[ret'.id], p)
        /\ invoices'[ret'.id] = [invoices[ret'.id] EXCEPT !.paymentStatus = "cancelled",
                                                         !.isActive = FALSE]
        /\ items' = items]_vars

\* C20: cancelInvoice and updateInvoice set no product's lastRestocked.
C20_ReleaseIsNoRestock ==
  [][ret'.op \in {"cancelInvoice", "updateInvoice"} => ret'.stamped = {}]_vars

\* C21: a createInvoice call that fails on an item (product not found,
\* insufficient stock, validation) leaves no invoice header and no item
\* behind and uses up no invoice number: the next creation is given the
\* number the failed call had.
C21_FailedCreatePersistsNothing ==
  [][(/\ ret'.op = "createInvoice"
      /\ ret'.error \in {"ProductNotFound", "InsufficientStock", "ValidationError"})
     => /\ invoices' = invoices
        /\ items' = items
        /\ issued' = issued
        /\ generateInvoiceNumber(invoices', created') =
             generateInvoiceNumber(invoices, created)]_vars

\* C22: a successful updateInvoice on a pending invoice changes every
\* product's available quantity by the quantity the old items held on it
\* minus the quantity the new items hold on it.
C22_EditNetChange ==
  [][(ret'.op = "updateInvoice" /\ ret'.error = "none" /\ ret'.was = "pending")
     => \A p \in Products :
          avail'[p] = avail[p] + SumQty(items[ret'.id], p) - SumQty(items'[ret'.id], p)]_vars

\* C23: a successful updateInvoice on a cancelled invoice leaves it active,
\* pending or paid, and every product's available quantity is what it was
\* before the call minus the quantity of the new items on it.
C23_ReactivateReservesOnce ==
  [][(ret'.op = "updateInvoice" /\ ret'.error = "none" /\ ret'.was = "cancelled")
     => /\ invoices'[ret'.id].isActive
        /\ invoices'[ret'.id].paymentStatus \in {"pending", "paid"}
        /\ \A p \in Products :
             avail'[p] = avail[p] - SumQty(items'[ret'.id], p)]_vars

\* C24: updateInvoiceStatus writes paymentStatus and paidAmount only: every
\* other field of the invoice (totals, isActive included), every invoice
\* item and every product quantity is what it was before the call.
C24_StatusFrame ==
  [][ret'.op = "updateInvoiceStatus"
     => /\ avail' = avail /\ items' = items /\ created' = created
        /\ DOMAIN invoices' = DOMAIN invoices
        /\ \A i \in DOMAIN invoices :
             invoices'[i] =
               IF i = ret'.id /\ ret'.error = "none"
                 THEN [invoices[i] EXCEPT !.paymentStatus = invoices'[i].paymentStatus,
                                          !.paidAmount = invoices'[i].paidAmount]
                 ELSE invoices[i]]_vars

\* The status of an active invoice with an unpaid total was set to
\* cancelled, and to paid with paidAmount 0, by updateInvoiceStatus.
C24_Witness ==
  /\ ret.op = "updateInvoiceStatus" /\ ret.error = "none" /\ ret.was = "cancelled"
  /\ invoices[ret.id].paymentStatus = "paid"
  /\ invoices[ret.id].paidAmount = 0 /\ invoices[ret.id].totalAmount > 0
  /\ invoices[ret.id].isActive
  /\ items[ret.id] # <<>>

\* C25: invoice items are snapshots.  A product edit (PUT /:id) or a soft
\* delete (DELETE /:id) changes no field of any invoice item, and every item a
\* createInvoice or updateInvoice call inserts carries the name, barcode, batch
\* number and expiry date the product has at that moment.
C25_ItemsAreSnapshots ==
  [][/\ ret'.op \in {"productUpdate", "productDelete"} => items' = items
     /\ (ret'.op \in {"createInvoice", "updateInvoice"} /\ items' # items)
        => /\ \A i \in DOMAIN items \ {ret'.id} : items'[i] = items[i]
           /\ \A k \in DOMAIN items'[ret'.id] :
                LET item == items'[ret'.id][k]
                    product == catalog[item.productId]
                IN /\ item.productName = product.name
                   /\ item.productBarcode = product.barcode
                   /\ item.batchNumber = product.batchNumber
                   /\ item.expiryDate = product.expiryDate]_vars

\* An item sold under the product's first name and barcode, after the product
\* was renamed, given another barcode, a batch number and an expiry date, and
\* soft-deleted.
C25_Witness ==
  /\ ret.op \in {"productUpdate", "productDelete"} /\ ret.error = "none"
  /\ \E i \in DOMAIN invoices : \E k \in DOMAIN items[i] :
       LET item == items[i][k]
           product == catalog[item.productId]
       IN /\ item.productName # product.name
          /\ item.productBarcode # product.barcode
          /\ item.batchNumber # product.batchNumber
          /\ item.expiryDate # product.expiryDate
          /\ ~product.isActive

\* C26: partial is never computed.  An invoice enters the status partial only
\* in a step of updateInvoiceStatus, and a createInvoice, updateInvoice or
\* cancelInvoice call that succeeds leaves its invoice in another status,
\* also when 0 < paidAmount < totalAmount and when the invoice was partial.
C26_PartialOnlyByHand ==
  [][/\ \A i \in DOMAIN invoices' :
          (/\ invoices'[i].paymentStatus = "partial"
           /\ i \in DOMAIN invoices => invoices[i].paymentStatus # "partial")
          => ret'.op = "updateInvoiceStatus"
     /\ (/\ ret'.op \in {"createInvoice", "updateInvoice", "cancelInvoice"}
         /\ ret'.error = "none")
        => invoices'[ret'.id].paymentStatus # "partial"]_vars

\* An invoice set to partial by hand, then edited with a part payment: it is
\* pending, with 0 < paidAmount < totalAmount.
C26_Witness ==
  /\ ret.op = "updateInvoice" /\ ret.error = "none" /\ ret.was = "partial"
  /\ invoices[ret.id].paidAmount > 0
  /\ invoices[ret.id].paidAmount < invoices[ret.id].totalAmount
  /\ invoices[ret.id].paymentStatus = "pending"

\* The value of a string of decimal digits, digit by digit.
RECURSIVE power10(_)
power10(e) == IF e = 0 THEN 1 ELSE 10 * power10(e - 1)

RECURSIVE decimalFrom(_, _)
decimalFrom(d, k) ==
  IF k > Len(d) THEN 0
  ELSE DigitValue(d[k]) * power10(Len(d) - k) + decimalFrom(d, k + 1)

\* The length of the decimal suffix of a string: the largest k such that its
\* last k characters are all digits.
suffixLength(s) ==
  CHOOSE k \in 0..Len(s) :
    /\ \A j \in (Len(s) - k + 1)..Len(s) : IsDigit(s[j])
    /\ k < Len(s) => ~IsDigit(s[Len(s) - k])

\* The n of the claim for the table invs with the rows created in order.
expectedNumber(invs, order) ==
  IF order = <<>> THEN 1
  ELSE LET s == invs[order[Len(order)]].invoiceNumber
           k == suffixLength(s)
       IN IF k = 0 THEN 1
          ELSE decimalFrom(SubSeq(s, Len(s) - k + 1, Len(s)), 1) + 1

C28_FailedEditChangesNothing ==
  [][(/\ ret'.op = "updateInvoice"
      /\ ret'.error \in {"ProductNotFound", "InsufficientStock"})
     => /\ invoices' = invoices
        /\ items' = items
        /\ avail' = avail]_vars

\* The rows hold several items on product p.
SeveralOn(rows, p) == Cardinality({k \in DOMAIN rows : rows[k].productId = p}) >= 2

\* C29: when several items of an invoice are on the same product, a
\* successful cancelInvoice raises every product's available quantity by the
\* sum of the quantities of its items, and a successful updateInvoice of a
\* pending or partial invoice releases that sum before it reserves the new
\* items.
C29_ReleaseSumsItems ==
  [][(/\ ret'.error = "none"
      /\ ret'.was \in {"pending", "partial"}
      /\ \E p \in Products : SeveralOn(items[ret'.id], p))
     => /\ ret'.op = "cancelInvoice"
           => \A p \in Products : avail'[p] = avail[p] + SumQty(items[ret'.id], p)
        /\ ret'.op = "updateInvoice"
           => \A p \in Products :
                avail'[p] = avail[p] + SumQty(items[ret'.id], p)
                              - SumQty(items'[ret'.id], p)]_vars

\* C30: in every state reached through the invoice entry points run one at a
\* time (createInvoice, updateInvoice, cancelInvoice, updateInvoiceStatus,
\* PATCH /:id/cancel, DELETE /:id), every product's available quantity plus
\* the quantity on the items of the existing non-cancelled invoices is its
\* initial quantity.
C30_ConservationEveryEntryPoint ==
  \A p \in Products :
    InitQty - avail[p] =
      ReservedIn({i \in DOMAIN invoices : invoices[i].paymentStatus # "cancelled"}, p)

====
